---- MODULE Spec2Model ----
(***************************************************************************)
(* Thought Translator: the rewrite client (services/geminiService.ts,      *)
(* translateThought) and the interaction controller with its history       *)
(* store (App.tsx), as a state machine.                                    *)
(*                                                                         *)
(* A text is a sequence of characters.  React state is the record st; the  *)
(* values the handlers of the current render closed over are the record    *)
(* rendered.  A setState call changes st; the Render action re-renders,    *)
(* which makes rendered equal to st and runs the effects whose             *)
(* dependencies changed.                                                   *)
(*                                                                         *)
(* Left out: the clipboard, the timer that resets copiedId, the language   *)
(* dropdown, the choice of a voice, browsers without speech recognition    *)
(* or synthesis, and the error events of the two.                          *)
(***************************************************************************)
EXTENDS Integers, Sequences, FiniteSets, TLC

VARIABLES
    phase,        \* "start" before the component mounts, "running" after
    st,           \* the useState values (App.tsx 58-68), as last set
    rendered,     \* the useState values the current render closed over
    dirty,        \* setHistory was called since the last render
    storage,      \* localStorage item 'translationHistory'
    calls,        \* the translateThought calls in flight, oldest first
    now,          \* the wall clock, in milliseconds
    used,         \* how much of each bound the run has used
    lastOp,       \* the last change of the history and what became of its write
    direct,       \* the last direct call of translateThought, as its caller sees it
    voice         \* the speech recognizer and the speech synthesizer

vars ==
    <<phase, st, rendered, dirty, storage, calls, now, used, lastOp, direct, voice>>

----------------------------------------------------------------------------
(* Bounds *)

MaxChunks == 2      \* fragments one stream delivers
MaxTime == 2        \* last clock value
MaxSubmits == 2     \* submissions the controller accepts
MaxClicks == 2      \* other user events: edits, replays, delete and clear clicks
MaxResults == 2     \* result events the recognizer delivers

----------------------------------------------------------------------------
(* Texts *)

null == "<null>"

IsSpace(c) == c = " "

RECURSIVE trimStart(_)
trimStart(s) ==
    IF s # <<>> /\ IsSpace(Head(s)) THEN trimStart(Tail(s)) ELSE s

RECURSIVE trimEnd(_)
trimEnd(s) ==
    IF s # <<>> /\ IsSpace(s[Len(s)]) THEN trimEnd(SubSeq(s, 1, Len(s) - 1)) ELSE s

\* String.prototype.trim
trim(s) == trimEnd(trimStart(s))

\* the texts the user can have typed
InputTexts == { <<>>, <<" ">>, <<"a">> }

\* the values of chunk.text the service can deliver
Chunks == { <<>>, <<"a">>, <<" ">> }

\* the raw causes a failing service call can raise
Causes == { "network error" }

Tones == { "Friendly", "Humorous", "Professional" }

\* names of the languages list the model uses
Languages == { "English", "Spanish" }

\* part_000 line 50
GenericError == "Sorry, something went wrong while translating. Please try again."

\* App.tsx line 193
UnexpectedError == "An unexpected error occurred."

\* App.tsx line 195; one symbol no fragment can contain
FailureOutput == << "Sorry, something went wrong. Please try again." >>

\* calling an undefined onChunk
NotAFunction == "TypeError: onChunk is not a function"

RECURSIVE Concat(_)
Concat(ss) == IF ss = <<>> THEN <<>> ELSE Head(ss) \o Concat(Tail(ss))

NonEmpty(ss) == SelectSeq(ss, LAMBDA c : c # <<>>)

----------------------------------------------------------------------------
(* History entries and the persisted document *)

\* Date.prototype.toISOString of the time t
toISOString(t) == "T" \o ToString(t) \o "Z"

HistoryEntry(t, input, output, tone, outputLanguage) ==
    [ id |-> toISOString(t), input |-> input, output |-> output, tone |-> tone,
      outputLanguage |-> outputLanguage, timestamp |-> t ]

Ids(h) == { h[i].id : i \in DOMAIN h }

\* localStorage.getItem gives null, or the stored text
Absent == [ kind |-> "absent", val |-> <<>> ]
EmptyText == [ kind |-> "empty", val |-> <<>> ]
Unparsable == [ kind |-> "unparsable", val |-> <<>> ]

\* JSON.stringify of a history
stringify(h) == [ kind |-> "json", val |-> h ]

\* entries written by earlier sessions
Old0 == HistoryEntry(-1, <<"a">>, <<>>, "Friendly", "English")
Old1 == HistoryEntry(0, <<"a">>, <<>>, "Humorous", "English")

StoredDocs ==
    { Absent, EmptyText, Unparsable, stringify(<<>>), stringify(<<Old1, Old0>>) }

----------------------------------------------------------------------------
(* Initial state *)

\* App.tsx lines 58-68
InitialState ==
    [ input |-> <<>>, output |-> <<>>, tone |-> "Friendly",
      outputLanguage |-> "English", isLoading |-> FALSE, history |-> <<>>,
      error |-> null, copiedId |-> null, confirmClear |-> FALSE,
      isListening |-> FALSE, isSpeaking |-> FALSE ]

NoOp == [ op |-> "none", id |-> null, write |-> "none" ]

\* what a direct caller of translateThought has seen of its last call
NoDirect ==
    [ status |-> "idle", text |-> <<>>, result |-> <<>>, arrived |-> <<>>,
      delivered |-> <<>>, message |-> null ]

\* the recognizer (line 17) and window.speechSynthesis at rest.  recognizing:
\* recognition is started; results: its SpeechRecognitionResultList; base:
\* the input when it was started; typed: the input was set by something
\* else since; speaking: an utterance is being spoken.
Silent ==
    [ recognizing |-> FALSE, base |-> <<>>, results |-> <<>>, typed |-> FALSE,
      speaking |-> FALSE ]

Init ==
    /\ phase = "start"
    /\ st = InitialState
    /\ rendered = InitialState
    /\ dirty = FALSE
    /\ storage \in StoredDocs
    /\ calls = <<>>
    /\ now = 1
    /\ used = [ submits |-> 0, clicks |-> 0, results |-> 0 ]
    /\ lastOp = NoOp
    /\ direct = NoDirect
    /\ voice = Silent

----------------------------------------------------------------------------
(* The rewrite client: translateThought (part_000 lines 19-52) *)

\* the test of line 20 without the trim
IsBlank_NoTrim(text) == text = <<>>

\* line 20: !text.trim()
IsBlank(text) == trim(text) = <<>>

\* lines 24-36: the request handed to generateContentStream, and the call's
\* local state: fullResponse, the fragments that arrived, the fragments
\* handed to onChunk.  onChunk is FALSE when the caller passed no callback.
NewCall(origin, text, tone, language, onChunk) ==
    [ origin |-> origin, text |-> text, tone |-> tone, language |-> language,
      onChunk |-> onChunk, fullResponse |-> <<>>, arrived |-> <<>>,
      delivered |-> <<>> ]

\* lines 40-44 handing the accumulated text to onChunk instead of the fragment
consumeChunk_Accumulated(call, c) ==
    IF c = <<>>
    THEN [ call |-> [call EXCEPT !.arrived = Append(@, c)], threw |-> null ]
    ELSE IF call.onChunk
    THEN [ call |-> [call EXCEPT !.arrived = Append(@, c),
                                 !.fullResponse = @ \o c,
                                 !.delivered = Append(@, call.fullResponse \o c)],
           threw |-> null ]
    ELSE [ call |-> [call EXCEPT !.arrived = Append(@, c),
                                 !.fullResponse = @ \o c],
           threw |-> NotAFunction ]

\* lines 40-44: one iteration of the for-await loop on the fragment c.
\* The result is the call after the iteration and what the iteration threw.
consumeChunk(call, c) ==
    IF c = <<>>
    THEN [ call |-> [call EXCEPT !.arrived = Append(@, c)], threw |-> null ]
    ELSE IF call.onChunk
    THEN [ call |-> [call EXCEPT !.arrived = Append(@, c),
                                 !.fullResponse = @ \o c,
                                 !.delivered = Append(@, c)],
           threw |-> null ]
    ELSE [ call |-> [call EXCEPT !.arrived = Append(@, c),
                                 !.fullResponse = @ \o c],
           threw |-> NotAFunction ]

\* line 46
returnValue(call) == trim(call.fullResponse)

\* a catch block that throws the cause on
thrownError_Raw(cause) == [ isError |-> TRUE, message |-> cause ]

\* lines 48-51: what the catch block throws for the raw cause
thrownError(cause) == [ isError |-> TRUE, message |-> GenericError ]

Remove(s, i) == SubSeq(s, 1, i - 1) \o SubSeq(s, i + 1, Len(s))

----------------------------------------------------------------------------
(* The history store: load, save, remove (App.tsx lines 78-96, 214-226) *)

\* JSON.parse of a stored text
parse(doc) == [ threw |-> doc.kind # "json", value |-> doc.val ]

\* the load effect without its try and catch
loadEffect_NoCatch(doc) ==
    IF doc.kind \in {"absent", "empty"}
    THEN [ set |-> FALSE, history |-> <<>>, crashed |-> FALSE ]
    ELSE IF parse(doc).threw
    THEN [ set |-> FALSE, history |-> <<>>, crashed |-> TRUE ]
    ELSE [ set |-> TRUE, history |-> parse(doc).value, crashed |-> FALSE ]

\* lines 79-86: the load effect on the stored item.  set: setHistory was
\* called, with history; crashed: an exception left the effect.
loadEffect(doc) ==
    IF doc.kind \in {"absent", "empty"}
    THEN [ set |-> FALSE, history |-> <<>>, crashed |-> FALSE ]
    ELSE IF parse(doc).threw
    THEN [ set |-> FALSE, history |-> <<>>, crashed |-> FALSE ]
    ELSE [ set |-> TRUE, history |-> parse(doc).value, crashed |-> FALSE ]

\* a save effect that writes nothing
saveEffect_NoWrite(doc, history, ok) == doc

\* lines 90-96: the save effect; setItem may throw, which is logged
saveEffect(doc, history, ok) == IF ok THEN stringify(history) ELSE doc

\* line 215 with the test of the filter inverted
removeEntry_Inverted(history, id) ==
    SelectSeq(history, LAMBDA entry : entry.id = id)

\* line 215
removeEntry(history, id) == SelectSeq(history, LAMBDA entry : entry.id # id)

Written(ok) == IF ok THEN "ok" ELSE "failed"

----------------------------------------------------------------------------
(* The controller: App (App.tsx) *)

Running == phase = "running"

\* The component mounts: the first render with the initial state, then the
\* load effect and the save effect of that render, in this order.  The save
\* effect of the first render writes the history that render closed over.
Mount ==
    /\ phase = "start"
    /\ direct = NoDirect
    /\ LET l == loadEffect(storage) IN
       /\ phase' = IF l.crashed THEN "crashed" ELSE "running"
       /\ st' = [InitialState EXCEPT !.history = l.history]
       /\ dirty' = l.set
    /\ rendered' = InitialState
    /\ \E ok \in BOOLEAN :
         storage' = saveEffect(storage, InitialState.history, ok)
    /\ lastOp' = [NoOp EXCEPT !.op = "load"]
    /\ UNCHANGED <<calls, now, used, direct, voice>>

\* React re-renders: the handlers close over the current state, and the save
\* effect runs if setHistory gave history a new value.
Render ==
    /\ Running
    /\ st # rendered \/ dirty
    /\ rendered' = st
    /\ dirty' = FALSE
    /\ IF dirty
       THEN \E ok \in BOOLEAN :
              /\ storage' = saveEffect(storage, st.history, ok)
              /\ lastOp' = [lastOp EXCEPT !.write = Written(ok)]
       ELSE UNCHANGED <<storage, lastOp>>
    /\ UNCHANGED <<phase, st, calls, now, used, direct, voice>>

\* recognition.stop(), lines 163 and 234
stop(v) == [v EXCEPT !.recognizing = FALSE, !.base = <<>>, !.results = <<>>,
                     !.typed = FALSE]

\* window.speechSynthesis.cancel(), lines 168, 274, 318
cancel(v) == [v EXCEPT !.speaking = FALSE]

\* the input was set by something other than the recognizer
Typed(v) == IF v.recognizing THEN [v EXCEPT !.typed = TRUE] ELSE v

\* a user event other than a submission
Click ==
    /\ Running
    /\ used.clicks < MaxClicks
    /\ used' = [used EXCEPT !.clicks = @ + 1]
    /\ UNCHANGED <<phase, rendered, storage, calls, now, direct>>

\* line 360: onChange of the textarea
ChangeInput ==
    /\ Click
    /\ \E v \in InputTexts : v # st.input /\ st' = [st EXCEPT !.input = v]
    /\ voice' = Typed(voice)
    /\ UNCHANGED <<dirty, lastOp>>

\* line 377
ClickTone ==
    /\ Click
    /\ \E t \in Tones : t # st.tone /\ st' = [st EXCEPT !.tone = t]
    /\ UNCHANGED <<dirty, lastOp, voice>>

\* lines 423-427
ClickLanguage ==
    /\ Click
    /\ \E l \in Languages :
         l # st.outputLanguage /\ st' = [st EXCEPT !.outputLanguage = l]
    /\ UNCHANGED <<dirty, lastOp, voice>>

\* lines 312-321, from the click on a rendered entry (line 524)
loadFromHistory ==
    /\ Click
    /\ \E i \in DOMAIN rendered.history :
         LET entry == rendered.history[i] IN
         st' = [st EXCEPT !.input = entry.input, !.output = entry.output,
                          !.tone = entry.tone,
                          !.outputLanguage = entry.outputLanguage,
                          !.isSpeaking = IF rendered.isSpeaking THEN FALSE ELSE @]
    /\ voice' = Typed(IF rendered.isSpeaking THEN cancel(voice) ELSE voice)
    /\ UNCHANGED <<dirty, lastOp>>

\* lines 214-216, for the entry id
Deletes(id) ==
    /\ st' = [st EXCEPT !.history = removeEntry(@, id)]
    /\ dirty' = TRUE
    /\ lastOp' = [ op |-> "remove", id |-> id, write |-> "pending" ]

\* the delete button of a rendered entry (line 539)
handleDeleteHistory ==
    /\ Click
    /\ \E i \in DOMAIN rendered.history : Deletes(rendered.history[i].id)
    /\ UNCHANGED voice

\* lines 218-226; the button exists while the rendered history is not empty
\* (line 506)
handleClearHistory ==
    /\ Click
    /\ rendered.history # <<>>
    /\ IF ~rendered.confirmClear
       THEN /\ st' = [st EXCEPT !.confirmClear = TRUE]
            /\ UNCHANGED <<dirty, lastOp>>
       ELSE /\ st' = [st EXCEPT !.history = <<>>, !.confirmClear = FALSE]
            /\ dirty' = TRUE
            /\ lastOp' = [ op |-> "clear", id |-> null, write |-> "pending" ]
    /\ UNCHANGED voice

\* line 221: the timer set by handleClearHistory fires
ConfirmTimeout ==
    /\ Running
    /\ st.confirmClear
    /\ st' = [st EXCEPT !.confirmClear = FALSE]
    /\ UNCHANGED <<phase, rendered, dirty, storage, calls, now, used, lastOp,
                   direct, voice>>

\* line 157
submitRejected(input, isLoading) == IsBlank(input) \/ isLoading

\* lines 162-170 stopping nothing
submitStops_Nothing(v, r) == v

\* lines 162-170: what handleSubmit tells the recognizer and the synthesizer
submitStops(v, r) ==
    LET v1 == IF r.isListening THEN stop(v) ELSE v IN
    IF r.isSpeaking THEN cancel(v1) ELSE v1

\* lines 159-170
submitStarted(s, r) ==
    [s EXCEPT !.isLoading = TRUE, !.error = null, !.output = <<>>,
              !.isListening = IF r.isListening THEN FALSE ELSE @,
              !.isSpeaking = IF r.isSpeaking THEN FALSE ELSE @]

\* lines 183-190 reading the state at completion instead of the values the
\* handler closed over
submitDone_CurrentState(s, call, result, t) ==
    [s EXCEPT !.output = result,
              !.copiedId = IF result # <<>> THEN "current" ELSE @,
              !.history = << HistoryEntry(t, s.input, result, s.tone,
                                          s.outputLanguage) >> \o @,
              !.isLoading = FALSE]

\* lines 174-191 and 197: handleSubmit after translateThought returned
\* result to the call it made with the values it closed over
submitDone(s, call, result, t) ==
    [s EXCEPT !.output = result,
              !.copiedId = IF result # <<>> THEN "current" ELSE @,
              !.history = << HistoryEntry(t, call.text, result, call.tone,
                                          call.language) >> \o @,
              !.isLoading = FALSE]

\* lines 192-195 without the finally of line 197
submitFailed_NoFinally(s, err) ==
    [s EXCEPT !.error = IF err.isError THEN err.message ELSE UnexpectedError,
              !.output = FailureOutput]

\* lines 192-197: handleSubmit after translateThought threw err
submitFailed(s, err) ==
    [s EXCEPT !.error = IF err.isError THEN err.message ELSE UnexpectedError,
              !.output = FailureOutput,
              !.isLoading = FALSE]

\* new Date() and Date.now(), lines 184 and 189: the clock is read as t.  It
\* is read nowhere else, so the time that passed since the last reading
\* passes here.
ReadClock(t) ==
    /\ t \in now .. MaxTime
    /\ now' = t

\* lines 174-191: the continuation of handleSubmit appends the entry
Appends(s, call, result) ==
    \E t \in now .. MaxTime :
        /\ ReadClock(t)
        /\ st' = submitDone(s, call, result, t)
        /\ dirty' = TRUE
        /\ lastOp' = [ op |-> "append", id |-> toISOString(t), write |-> "pending" ]

\* lines 156-173: handleSubmit with the values of the render it was created
\* in, up to the await; when translateThought returns at its line 21 the
\* rest of handleSubmit follows with no other task in between
handleSubmit ==
    LET call == NewCall("app", rendered.input, rendered.tone,
                        rendered.outputLanguage, FALSE) IN
    IF submitRejected(rendered.input, rendered.isLoading)
    THEN UNCHANGED vars
    ELSE /\ used.submits < MaxSubmits
         /\ used' = [used EXCEPT !.submits = @ + 1]
         /\ IF IsBlank(call.text)
            THEN /\ Appends(submitStarted(st, rendered), call, <<>>)
                 /\ UNCHANGED calls
            ELSE /\ st' = submitStarted(st, rendered)
                 /\ calls' = Append(calls, call)
                 /\ UNCHANGED <<dirty, lastOp, now>>
         /\ voice' = submitStops(voice, rendered)
         /\ UNCHANGED <<phase, rendered, storage, direct>>

\* lines 201-206: Enter without Shift in the textarea
handleKeyDown ==
    /\ Running
    /\ handleSubmit

\* lines 443-447: the button is disabled while loading or with a blank input
ClickSubmit ==
    /\ Running
    /\ ~(rendered.isLoading \/ IsBlank(rendered.input))
    /\ handleSubmit

----------------------------------------------------------------------------
(* Dictation and read-aloud (App.tsx lines 228-309) *)

\* the transcript of a recognition result
Word == << "b" >>

\* lines 228-241, from the microphone button (line 349).  start() throws
\* when recognition is already started.
toggleListening ==
    /\ Click
    /\ IF rendered.isListening
       THEN /\ st' = [st EXCEPT !.isListening = FALSE]
            /\ voice' = stop(voice)
       ELSE IF voice.recognizing
       THEN UNCHANGED <<st, voice>>
       ELSE /\ st' = [st EXCEPT !.isListening = TRUE]
            /\ voice' = [voice EXCEPT !.recognizing = TRUE, !.base = st.input,
                                      !.results = <<>>, !.typed = FALSE]
    /\ UNCHANGED <<dirty, lastOp>>

\* lines 247-254: the loop from event.resultIndex over event.results, for
\* the results that are final, or the ones that are not
RECURSIVE transcript(_, _, _)
transcript(results, i, isFinal) ==
    IF i > Len(results)
    THEN <<>>
    ELSE (IF results[i].isFinal = isFinal THEN results[i].transcript ELSE <<>>)
         \o transcript(results, i + 1, isFinal)

\* lines 245-256: the value recognition.onresult hands to setInput; input is
\* the value the effect closed over (dependency [input], line 270)
onresult(input, resultIndex, results) ==
    input \o transcript(results, resultIndex, TRUE)
          \o transcript(results, resultIndex, FALSE)

\* The recognizer delivers a result event: a result that is not final yet is
\* replaced by its next version, otherwise a new result is added.
RecognitionResult ==
    /\ Running
    /\ voice.recognizing
    /\ used.results < MaxResults
    /\ used' = [used EXCEPT !.results = @ + 1]
    /\ \E isFinal \in BOOLEAN :
         LET n == Len(voice.results)
             r == [ transcript |-> Word, isFinal |-> isFinal ]
             results == IF n > 0 /\ ~voice.results[n].isFinal
                        THEN [voice.results EXCEPT ![n] = r]
                        ELSE Append(voice.results, r)
         IN /\ voice' = [voice EXCEPT !.results = results]
            /\ st' = [st EXCEPT !.input =
                          onresult(rendered.input, Len(results), results)]
    /\ UNCHANGED <<phase, rendered, dirty, storage, calls, now, lastOp, direct>>

\* lines 262-264: recognition ends by itself
RecognitionEnd ==
    /\ Running
    /\ voice.recognizing
    /\ voice' = stop(voice)
    /\ st' = [st EXCEPT !.isListening = FALSE]
    /\ UNCHANGED <<phase, rendered, dirty, storage, calls, now, used, lastOp,
                   direct>>

\* lines 272-309, from the speaker button, which exists while the rendered
\* output is not empty (lines 470-472); window.speechSynthesis exists
handleSpeak ==
    /\ Click
    /\ rendered.output # <<>>
    /\ IF rendered.isSpeaking
       THEN /\ st' = [st EXCEPT !.isSpeaking = FALSE]
            /\ voice' = cancel(voice)
       ELSE /\ st' = [st EXCEPT !.isSpeaking = TRUE]
            /\ voice' = [voice EXCEPT !.speaking = TRUE]
    /\ UNCHANGED <<dirty, lastOp>>

\* line 295: the utterance ends
SpeechEnd ==
    /\ Running
    /\ voice.speaking
    /\ voice' = cancel(voice)
    /\ st' = [st EXCEPT !.isSpeaking = FALSE]
    /\ UNCHANGED <<phase, rendered, dirty, storage, calls, now, used, lastOp,
                   direct>>

----------------------------------------------------------------------------
(* translateThought called on its own, with a callback that records the    *)
(* fragments, while the component is not mounted.  Such a call and the     *)
(* controller share no state.                                              *)

DirectCall ==
    /\ phase = "start"
    /\ calls = <<>>
    /\ \E text \in InputTexts, tone \in Tones, language \in Languages :
         LET call == NewCall("direct", text, tone, language, TRUE) IN
         IF IsBlank(text)
         THEN /\ direct' = [NoDirect EXCEPT !.status = "returned", !.text = text]
              /\ UNCHANGED calls
         ELSE /\ direct' = [NoDirect EXCEPT !.status = "pending", !.text = text]
              /\ calls' = Append(calls, call)
    /\ UNCHANGED <<phase, st, rendered, dirty, storage, now, used, lastOp, voice>>

Seen(status, call, result, message) ==
    [ status |-> status, text |-> call.text, result |-> result,
      arrived |-> call.arrived, delivered |-> call.delivered,
      message |-> message ]

----------------------------------------------------------------------------
(* The service answers a call in flight *)

\* translateThought threw for the cause: the awaiting caller goes on
Fail(i, call, cause) ==
    /\ calls' = Remove(calls, i)
    /\ IF call.origin = "app"
       THEN /\ st' = submitFailed(st, thrownError(cause))
            /\ UNCHANGED direct
       ELSE /\ direct' = Seen("threw", call, <<>>, thrownError(cause).message)
            /\ UNCHANGED st
    /\ UNCHANGED <<phase, rendered, dirty, storage, now, used, lastOp, voice>>

\* part_000 lines 27 and 39: the request or the stream of call i raises
Raises(i, cause) == Fail(i, calls[i], cause)

\* part_000 lines 39-45: the stream of call i delivers the fragment c
Arrives(i, c) ==
    /\ Len(calls[i].arrived) < MaxChunks
    /\ LET r == consumeChunk(calls[i], c) IN
       IF r.threw = null
       THEN /\ calls' = [calls EXCEPT ![i] = r.call]
            /\ UNCHANGED <<phase, st, rendered, dirty, storage, now, used,
                           lastOp, direct, voice>>
       ELSE Fail(i, r.call, r.threw)

\* part_000 line 46: the stream of call i ends and translateThought returns
Returns(i) ==
    LET call == calls[i]
        result == returnValue(call) IN
    /\ calls' = Remove(calls, i)
    /\ IF call.origin = "app"
       THEN /\ Appends(st, call, result)
            /\ UNCHANGED direct
       ELSE /\ direct' = Seen("returned", call, result, null)
            /\ UNCHANGED <<st, dirty, lastOp, now>>
    /\ UNCHANGED <<phase, rendered, storage, used, voice>>

ServiceError == \E i \in DOMAIN calls : \E cause \in Causes : Raises(i, cause)

StreamChunk == \E i \in DOMAIN calls : \E c \in Chunks : Arrives(i, c)

StreamEnd == \E i \in DOMAIN calls : Returns(i)

Next ==
    \/ DirectCall
    \/ Mount
    \/ Render
    \/ ChangeInput
    \/ ClickTone
    \/ ClickLanguage
    \/ loadFromHistory
    \/ handleDeleteHistory
    \/ handleClearHistory
    \/ ConfirmTimeout
    \/ ClickSubmit
    \/ handleKeyDown
    \/ toggleListening
    \/ RecognitionResult
    \/ RecognitionEnd
    \/ handleSpeak
    \/ SpeechEnd
    \/ ServiceError
    \/ StreamChunk
    \/ StreamEnd

Spec == Init /\ [][Next]_vars

\* The promise of a call in flight settles (part_000 line 46 or 50), and React
\* renders again after a setState.
LiveSpec ==
    /\ Spec
    /\ WF_vars(StreamEnd \/ ServiceError)
    /\ WF_vars(Render)

----------------------------------------------------------------------------
(* Properties *)

WhitespaceOnly(text) == \A k \in DOMAIN text : text[k] = " "

Spaces(n) == [ k \in 1 .. n |-> " " ]

\* r is s without the white space at its two ends
IsTrimOf(r, s) ==
    /\ \E m, n \in 0 .. Len(s) : s = Spaces(m) \o r \o Spaces(n)
    /\ r # <<>> => r[1] # " " /\ r[Len(r)] # " "

AppCalls == { i \in DOMAIN calls : calls[i].origin = "app" }

\* call i ends in this step because translateThought threw
Fails(i) ==
    \/ \E cause \in Causes : Raises(i, cause)
    \/ \E c \in Chunks : Arrives(i, c) /\ Len(calls') < Len(calls)

\* C1: no service call is in flight for an empty or white-space input, no
\* history entry has such an input, and a direct call of translateThought on
\* such an input has returned the empty text without reading any stream.
C1_BlankInputDoesNothing ==
    /\ \A i \in DOMAIN calls : ~WhitespaceOnly(calls[i].text)
    /\ \A k \in DOMAIN st.history : ~WhitespaceOnly(st.history[k].input)
    /\ (direct.status # "idle" /\ WhitespaceOnly(direct.text)) =>
          /\ direct.status = "returned"
          /\ direct.result = <<>>
          /\ direct.arrived = <<>>

C1_Witness ==
    /\ direct.status = "returned"
    /\ direct.text = << " " >>
    /\ calls = <<>>

\* C2: the fragments handed to the callback are the non-empty fragments of
\* the stream, each once and in arrival order, while the call is in flight
\* and when it has returned; the returned text is their concatenation
\* without the white space at its ends.
C2_FragmentsInOrder ==
    /\ \A i \in DOMAIN calls :
          calls[i].onChunk => calls[i].delivered = NonEmpty(calls[i].arrived)
    /\ direct.status = "returned" =>
          /\ direct.delivered = NonEmpty(direct.arrived)
          /\ IsTrimOf(direct.result, Concat(direct.delivered))

C2_Witness ==
    /\ direct.status = "returned"
    /\ Len(direct.delivered) = 2
    /\ direct.delivered[1] # direct.delivered[2]
    /\ direct.result # Concat(direct.delivered)

\* C3: a step in which the service hands a fragment to a submission of the
\* controller, or ends its stream, does not fail the submission; when the
\* stream ends the output is the trimmed concatenation of the fragments and
\* no error is set.
C3_StreamWithoutErrorEndsDone ==
    [][ \A i \in AppCalls :
          /\ (\E c \in Chunks : Arrives(i, c)) =>
                /\ Len(calls') = Len(calls)
                /\ st'.output # FailureOutput
                /\ st'.error = null
          /\ Returns(i) =>
                /\ st'.output = trim(Concat(calls[i].arrived))
                /\ st'.error = null ]_vars

\* C4: when a submission of the controller returns, the history is the
\* history just before with one entry put in front of it; the entry carries
\* the input, tone and language the submission was made with and the
\* returned text.  A submission is made with the values on screen.
C4_EntryFirstWithRequest ==
    [][ /\ \A i \in AppCalls :
              Returns(i) =>
                 /\ Len(st'.history) = Len(st.history) + 1
                 /\ Tail(st'.history) = st.history
                 /\ Head(st'.history).input = calls[i].text
                 /\ Head(st'.history).tone = calls[i].tone
                 /\ Head(st'.history).outputLanguage = calls[i].language
                 /\ Head(st'.history).output = trim(Concat(calls[i].arrived))
        /\ (Running /\ Len(calls') > Len(calls)) =>
              LET call == calls'[Len(calls')] IN
              /\ call.text = rendered.input
              /\ call.tone = rendered.tone
              /\ call.language = rendered.outputLanguage ]_vars

\* a submission returned after the input was edited, and the edit shown,
\* while it was in flight
C4_Witness ==
    /\ rendered.isLoading
    /\ ~st.isLoading
    /\ lastOp.op = "append"
    /\ lastOp.write = "pending"
    /\ Len(st.history) >= 2
    /\ Head(st.history).input # rendered.input

\* C5: when a submission of the controller fails, the history is unchanged,
\* the output is the fixed failure text and the error is the one generic
\* message, not the cause.
C5_FailureLeavesNoEntry ==
    [][ \A i \in AppCalls :
          Fails(i) =>
             /\ st'.history = st.history
             /\ st'.output = FailureOutput
             /\ st'.error = GenericError
             /\ st'.error \notin Causes \cup {NotAFunction} ]_vars

C5_Witness ==
    /\ st.output = FailureOutput
    /\ st.error = GenericError
    /\ ~st.isLoading
    /\ calls = <<>>
    /\ st.history # <<>>

\* C6: at most one call of the controller to the service is in flight.
C6_OneCallInFlight == Cardinality(AppCalls) <= 1

\* C7: the identifiers of the history entries are pairwise distinct.
C7_IdsDistinct ==
    \A j, k \in DOMAIN st.history : j # k => st.history[j].id # st.history[k].id

\* C8: when a non-empty fragment arrives for a submission of the controller,
\* the output becomes the concatenation of the non-empty fragments that
\* have arrived so far.
C8_OutputGrowsByFragment ==
    [][ \A i \in AppCalls : \A c \in Chunks \ {<<>>} :
          Arrives(i, c) =>
             st'.output = Concat(NonEmpty(calls[i].arrived)) \o c ]_vars

C10_LoadNeverCrashes ==
    [][ Mount =>
          /\ phase' = "running"
          /\ storage.kind \in {"absent", "empty", "unparsable"} =>
                st'.history = <<>>
          /\ storage.kind = "json" => st'.history = storage.val ]_vars

C10_Witness ==
    /\ Running
    /\ lastOp.op = "load"
    /\ storage = Unparsable
    /\ st.history = <<>>

Mutations == { "append", "remove", "clear" }

\* C11: after an append, a remove or a clear a write is due and it comes with
\* the next render; once the write for the last of them has run and has not
\* failed, the stored item is the serialized in-memory history; a render,
\* whether its write fails or not, leaves the in-memory state as it is.
C11_WriteFollowsMutation ==
    /\ [](lastOp.write = "pending" => dirty)
    /\ (lastOp.write = "pending" ~> lastOp.write \in {"ok", "failed"})
    /\ []((lastOp.op \in Mutations /\ lastOp.write = "ok") =>
              storage = stringify(st.history))
    /\ [][Render => st' = st]_vars

\* an entry was appended to a stored history and the write has run
C11_Witness ==
    /\ lastOp.op = "append"
    /\ lastOp.write = "ok"
    /\ Len(st.history) >= 2
    /\ storage = stringify(st.history)

\* C14: isLoading is true only while a call of the controller is in flight;
\* a submission that set it is followed by a state in which it is false, on
\* the return and on the failure of the call, and then by a render whose
\* handlers see it false, so that the guard of handleSubmit accepts a
\* non-blank input again.
C14_LoadingEnds ==
    /\ [](st.isLoading => AppCalls # {})
    /\ (st.isLoading ~> ~st.isLoading)
    /\ (st.isLoading ~> (~st.isLoading /\ ~rendered.isLoading))
    /\ [][ \A i \in AppCalls :
              (Returns(i) \/ Fails(i)) => ~st'.isLoading ]_vars

\* a second submission was accepted after the first one returned
C14_Witness ==
    /\ used.submits = 2
    /\ Len(calls) = 1
    /\ st.isLoading
    /\ lastOp.op = "append"

\* C15: from the mount until the first append, remove or clear, a stored
\* history that parses is the stored item.
C15_StartupKeepsStored ==
    (lastOp.op = "load" /\ st.history # <<>>) => storage = stringify(st.history)

\* every result of the list is final
Finalized(results) ==
    /\ results # <<>>
    /\ \A i \in DOMAIN results : results[i].isFinal

\* C12: while dictation is on and nothing else has set the input, once every
\* result is final the input is the text it held when dictation started
\* followed by the final transcripts in order.
C12_DictationAppendsFinals ==
    (voice.recognizing /\ ~voice.typed /\ Finalized(voice.results)) =>
        st.input = voice.base \o transcript(voice.results, 1, TRUE)

\* a submission is accepted in this step
Accepted == Running /\ Len(calls') > Len(calls)

VoiceStopped(s, v) ==
    /\ ~s.isListening
    /\ ~v.recognizing
    /\ ~s.isSpeaking
    /\ ~v.speaking

====
